---- MODULE Spec2Model ----
(***************************************************************************)
(* The /verify endpoint (handleVerify) of the developer portal, together   *)
(* with the nullifier table it writes and the action row it reads.  Every  *)
(* await of the handler is a separate step, so requests interleave at the  *)
(* fetch, at verifyProof and at the insert / conditional update.           *)
(***************************************************************************)
EXTENDS Integers, FiniteSets, Sequences, TLC

\* ---- bounds ----
\* concurrent requests, distinct nullifier hashes, largest max_verifications
\* (limits are 1..MaxVerif)
NReq == 3
NHashes == 2
MaxVerif == 2
\* dashboard updates in flight, distinct names / descriptions
NUpd == 2
NText == 2

Reqs == 1..NReq
Hashes == 1..NHashes
Upds == 1..NUpd
Texts == 1..NText

VARIABLES action, nullifiers, nextId, lowered, pc, params, data, proof, res

\* the dashboard: the action's name, description and kiosk_enabled on the
\* server (its max_verifications is action.max_verifications), the action in
\* the local store, and per update its position, argument, variables sent
\* and response
VARIABLES details, store, upc, uarg, usent, udata

fvars == <<details, store, upc, uarg, usent, udata>>

vars == <<action, nullifiers, nextId, lowered, pc, params, data, proof, res, fvars>>

\* ---- values ----
\* parsedParams.nullifier_hash is first read by the fetch: a request that is
\* answered before the fetch carries no hash here
NoHash == 0
NoParams == [method |-> "POST", isValid |-> TRUE, app_id |-> TRUE, nullifier_hash |-> NoHash]
Requests ==
    {p \in [method : {"POST", "GET"}, isValid : BOOLEAN, app_id : BOOLEAN,
            nullifier_hash : Hashes \cup {NoHash}] :
        (p.method = "POST" /\ p.isValid /\ p.app_id) <=> p.nullifier_hash # NoHash}
NoNullifier == [found |-> FALSE, uses |-> 0]
NoData == [error |-> FALSE, status |-> "active", max_verifications |-> 1,
           external_nullifier |-> TRUE, nullifier |-> NoNullifier]
NoRes == [code |-> "none", uses |-> 0, max_uses |-> 0]

ErrorRes(code) == [code |-> code, uses |-> 0, max_uses |-> 0]

\* ---- the nullifier table ----
RowsOf(rows, hash) == {n \in rows : n.nullifier_hash = hash}

\* where: { uses: { _eq: $uses }, nullifier_hash: { _eq: $nullifier_hash } }
\* (fault: the where clause without the uses comparison)
UpdateWhereAnyUses(n, hash, uses) == n.nullifier_hash = hash
UpdateWhere(n, hash, uses) == n.nullifier_hash = hash /\ n.uses = uses

\* _inc: { uses: 1 }
\* (fault: another increment)
IncUsesByTwo(n) == [n EXCEPT !.uses = @ + 2]
IncUses(n) == [n EXCEPT !.uses = @ + 1]

affected_rows(rows, hash, uses) ==
    Cardinality({n \in rows : UpdateWhere(n, hash, uses)})

updateNullifierQuery(rows, hash, uses) ==
    {IF UpdateWhere(n, hash, uses) THEN IncUses(n) ELSE n : n \in rows}

\* the unique constraint behind the "constraint-violation" answer
\* (fault: no unique constraint)
NeverViolates(rows, hash) == FALSE
ConstraintViolation(rows, hash) == RowsOf(rows, hash) # {}

\* the uses column of a row inserted without a uses value
DefaultUses == 1

insertNullifierQuery(rows, id, hash) ==
    rows \cup {[id |-> id, nullifier_hash |-> hash, uses |-> DefaultUses]}

\* ---- helpers of the handler ----
\* a person may verify when no row exists yet or the row is below the limit
canVerifyForAction(nullifier, max_verifications) ==
    \/ ~nullifier.found
    \/ nullifier.uses < max_verifications

fetchActionForProof(act, rows, hash) ==
    [error |-> FALSE,
     status |-> act.status,
     max_verifications |-> act.max_verifications,
     external_nullifier |-> act.external_nullifier,
     nullifier |-> IF RowsOf(rows, hash) = {} THEN NoNullifier
                   ELSE [found |-> TRUE,
                         uses |-> (CHOOSE n \in RowsOf(rows, hash) : TRUE).uses]]

\* the checks before any await: method, schema, app_id
RequestCheck(p) ==
    IF p.method # "POST" THEN "method_not_allowed"
    ELSE IF ~p.isValid THEN "validation_error"
    ELSE IF ~p.app_id THEN "required"
    ELSE "ok"

\* the checks between the fetch and verifyProof
\* (faults: the limit check left out; the limit check before the status check)
FetchedCheckNoLimit(d) ==
    IF d.error THEN "fetch_error"
    ELSE IF d.status = "inactive" THEN "action_inactive"
    ELSE IF ~d.external_nullifier THEN "verification_error"
    ELSE "ok"
FetchedCheckLimitFirst(d) ==
    IF d.error THEN "fetch_error"
    ELSE IF ~canVerifyForAction(d.nullifier, d.max_verifications) THEN "already_verified"
    ELSE IF d.status = "inactive" THEN "action_inactive"
    ELSE IF ~d.external_nullifier THEN "verification_error"
    ELSE "ok"
FetchedCheck(d) ==
    IF d.error THEN "fetch_error"
    ELSE IF d.status = "inactive" THEN "action_inactive"
    ELSE IF ~canVerifyForAction(d.nullifier, d.max_verifications) THEN "already_verified"
    ELSE IF ~d.external_nullifier THEN "verification_error"
    ELSE "ok"

\* if (error || !success)
\* (fault: only an error rejects)
ProofRejectedOnlyOnError(error, success) == error
ProofRejected(error, success) == error \/ ~success

\* updateResponse.data.update_nullifier.affected_rows === 0
\* (fault: the answer ignores affected_rows)
NoRowsAffectedAlways(n) == TRUE
NoRowsAffected(n) == n = 0

\* uses: nullifier.uses + 1
\* (fault: the fetched value is reported)
ReportedUsesStale(nullifier) == nullifier.uses
ReportedUses(nullifier) == nullifier.uses + 1

\* ---- the dashboard's view of the action ----
\* the four fields UpdateActionMutation sets
ServerAction ==
    [name |-> details.name, description |-> details.description,
     max_verifications |-> action.max_verifications,
     kiosk_enabled |-> details.kiosk_enabled]

NoArg == [id |-> "action"]
NoAction == [name |-> 1, description |-> 1, max_verifications |-> 1, kiosk_enabled |-> FALSE]

\* no dashboard open: nothing fetched into the store, nothing in flight
DashboardIdle ==
    /\ details = [name |-> 1, description |-> 1, kiosk_enabled |-> FALSE]
    /\ store = NoAction
    /\ upc = [u \in Upds |-> "idle"]
    /\ uarg = [u \in Upds |-> NoArg]
    /\ usent = [u \in Upds |-> NoAction]
    /\ udata = [u \in Upds |-> NoAction]

\* ---- initial state ----
Init ==
    /\ action \in [max_verifications : 1..MaxVerif,
                   status : {"active", "inactive"},
                   external_nullifier : BOOLEAN]
    /\ nullifiers = {}
    /\ nextId = 1
    /\ lowered = FALSE
    /\ pc = [r \in Reqs |-> "idle"]
    /\ params = [r \in Reqs |-> NoParams]
    /\ data = [r \in Reqs |-> NoData]
    /\ proof = [r \in Reqs |-> "none"]
    /\ res = [r \in Reqs |-> NoRes]
    /\ DashboardIdle

Respond(r, response) ==
    /\ res' = [res EXCEPT ![r] = response]
    /\ pc' = [pc EXCEPT ![r] = "done"]

\* ---- handleVerify, one action per await ----
\* Requests are numbered in the order they arrive.
Receive(r) ==
    /\ pc[r] = "idle"
    /\ \A q \in Reqs : q < r => pc[q] # "idle"
    /\ \E p \in Requests :
         /\ params' = [params EXCEPT ![r] = p]
         /\ IF RequestCheck(p) # "ok"
            THEN Respond(r, ErrorRes(RequestCheck(p)))
            ELSE /\ pc' = [pc EXCEPT ![r] = "fetch"]
                 /\ res' = res
    /\ UNCHANGED <<action, nullifiers, nextId, lowered, data, proof, fvars>>

Fetch(r) ==
    /\ pc[r] = "fetch"
    /\ \E failed \in BOOLEAN :
         LET d == IF failed THEN [NoData EXCEPT !.error = TRUE]
                  ELSE fetchActionForProof(action, nullifiers, params[r].nullifier_hash)
         IN /\ data' = [data EXCEPT ![r] = d]
            /\ IF FetchedCheck(d) # "ok"
               THEN Respond(r, ErrorRes(FetchedCheck(d)))
               ELSE /\ pc' = [pc EXCEPT ![r] = "verify"]
                    /\ res' = res
    /\ UNCHANGED <<action, nullifiers, nextId, lowered, params, proof, fvars>>

VerifyProof(r) ==
    /\ pc[r] = "verify"
    /\ \E error \in BOOLEAN, success \in BOOLEAN :
         /\ ~(error /\ success)
         /\ proof' = [proof EXCEPT ![r] = IF success THEN "success" ELSE "failed"]
         /\ IF ProofRejected(error, success)
            THEN Respond(r, ErrorRes("proof_error"))
            ELSE /\ pc' = [pc EXCEPT ![r] = "write"]
                 /\ res' = res
    /\ UNCHANGED <<action, nullifiers, nextId, lowered, params, data, fvars>>

UpdateNullifier(r) ==
    /\ pc[r] = "write"
    /\ data[r].nullifier.found
    /\ LET hash == params[r].nullifier_hash
           uses == data[r].nullifier.uses
       IN   /\ nullifiers' = updateNullifierQuery(nullifiers, hash, uses)
            /\ IF NoRowsAffected(affected_rows(nullifiers, hash, uses))
               THEN Respond(r, ErrorRes("already_verified"))
               ELSE Respond(r, [code |-> "success",
                                uses |-> ReportedUses(data[r].nullifier),
                                max_uses |-> data[r].max_verifications])
    /\ UNCHANGED <<action, nextId, lowered, params, data, proof, fvars>>

\* thrown: the mutation failed for another reason than the constraint and the
\* handler rethrows
InsertNullifier(r) ==
    /\ pc[r] = "write"
    /\ ~data[r].nullifier.found
    /\ LET hash == params[r].nullifier_hash
       IN \E thrown \in BOOLEAN :
            IF thrown
            THEN /\ Respond(r, ErrorRes("thrown"))
                 /\ UNCHANGED <<nullifiers, nextId>>
            ELSE IF ConstraintViolation(nullifiers, hash)
            THEN /\ Respond(r, ErrorRes("already_verified"))
                 /\ UNCHANGED <<nullifiers, nextId>>
            ELSE /\ nullifiers' = insertNullifierQuery(nullifiers, nextId, hash)
                 /\ nextId' = nextId + 1
                 /\ LET row == CHOOSE n \in nullifiers' : n.id = nextId
                    IN IF row.nullifier_hash # hash
                       THEN Respond(r, ErrorRes("verification_error"))
                       ELSE Respond(r, [code |-> "success", uses |-> 1,
                                        max_uses |-> data[r].max_verifications])
    /\ UNCHANGED <<action, lowered, params, data, proof, fvars>>

\* ---- the dashboard's updateMaxVerifications ----
updateMaxVerifications ==
    /\ \E max_verifications \in 1..MaxVerif :
         /\ max_verifications # action.max_verifications
         /\ action' = [action EXCEPT !.max_verifications = max_verifications]
         /\ lowered' = (lowered \/ max_verifications < action.max_verifications)
    /\ UNCHANGED <<nullifiers, nextId, pc, params, data, proof, res, fvars>>

Next ==
    \/ \E r \in Reqs : Receive(r)
    \/ \E r \in Reqs : Fetch(r)
    \/ \E r \in Reqs : VerifyProof(r)
    \/ \E r \in Reqs : UpdateNullifier(r)
    \/ \E r \in Reqs : InsertNullifier(r)

Spec == Init /\ [][Next]_vars

\* The same handler started against a table that earlier traffic has filled:
\* at most one row per nullifier_hash, each within the limit of the action.
InitStored ==
    /\ action \in [max_verifications : 1..MaxVerif,
                   status : {"active", "inactive"},
                   external_nullifier : BOOLEAN]
    /\ \E stored \in [Hashes -> 0..MaxVerif] :
         /\ \A hash \in Hashes : stored[hash] <= action.max_verifications
         /\ nullifiers = {[id |-> hash, nullifier_hash |-> hash, uses |-> stored[hash]] :
                            hash \in {h \in Hashes : stored[h] > 0}}
    /\ nextId = NHashes + 1
    /\ lowered = FALSE
    /\ pc = [r \in Reqs |-> "idle"]
    /\ params = [r \in Reqs |-> NoParams]
    /\ data = [r \in Reqs |-> NoData]
    /\ proof = [r \in Reqs |-> "none"]
    /\ res = [r \in Reqs |-> NoRes]
    /\ DashboardIdle

SpecStored == InitStored /\ [][Next]_vars

NextAdmin ==
    \/ Next
    \/ updateMaxVerifications

SpecAdmin == Init /\ [][NextAdmin]_vars

\* ---- the dashboard's action updates (useActions) ----
\* The dashboard has fetched the action into its store; no verification
\* request is running.
InitDashboard ==
    /\ action \in [max_verifications : 1..MaxVerif,
                   status : {"active"},
                   external_nullifier : {TRUE}]
    /\ nullifiers = {}
    /\ nextId = 1
    /\ lowered = FALSE
    /\ pc = [r \in Reqs |-> "idle"]
    /\ params = [r \in Reqs |-> NoParams]
    /\ data = [r \in Reqs |-> NoData]
    /\ proof = [r \in Reqs |-> "none"]
    /\ res = [r \in Reqs |-> NoRes]
    /\ details \in [name : Texts, description : Texts, kiosk_enabled : BOOLEAN]
    /\ store = ServerAction
    /\ upc = [u \in Upds |-> "idle"]
    /\ uarg = [u \in Upds |-> NoArg]
    /\ usent = [u \in Upds |-> NoAction]
    /\ udata = [u \in Upds |-> NoAction]

\* arg.field ?? currentAction.field
Coalesce(arg, currentAction, field) ==
    IF field \in DOMAIN arg THEN arg[field] ELSE currentAction[field]

\* The fetcher up to its await: it reads the action in the store and sends
\* all four fields.  Updates are numbered in the order they are issued.
updateActionFetcher(u, arg) ==
    /\ upc[u] = "idle"
    /\ \A v \in Upds : v < u => upc[v] # "idle"
    /\ LET currentAction == store
       IN usent' = [usent EXCEPT ![u] =
                      [name |-> Coalesce(arg, currentAction, "name"),
                       description |-> Coalesce(arg, currentAction, "description"),
                       max_verifications |-> Coalesce(arg, currentAction, "max_verifications"),
                       kiosk_enabled |-> Coalesce(arg, currentAction, "kiosk_enabled")]]
    /\ uarg' = [uarg EXCEPT ![u] = arg]
    /\ upc' = [upc EXCEPT ![u] = "sent"]
    /\ UNCHANGED <<action, nullifiers, nextId, lowered, pc, params, data, proof, res,
                   details, store, udata>>

updateName(u) ==
    \E name \in Texts : updateActionFetcher(u, [id |-> "action", name |-> name])

updateDescription(u) ==
    \E description \in Texts :
        updateActionFetcher(u, [id |-> "action", description |-> description])

updateMaxVerificationsCall(u) ==
    \E max_verifications \in 1..MaxVerif :
        updateActionFetcher(u, [id |-> "action", max_verifications |-> max_verifications])

toggleKiosk(u) ==
    updateActionFetcher(u, [id |-> "action", kiosk_enabled |-> ~store.kiosk_enabled])

\* the server applies update_action_by_pk and returns the row
UpdateActionMutation(u) ==
    /\ upc[u] = "sent"
    /\ action' = [action EXCEPT !.max_verifications = usent[u].max_verifications]
    /\ lowered' = (lowered \/ usent[u].max_verifications < action.max_verifications)
    /\ details' = [name |-> usent[u].name, description |-> usent[u].description,
                   kiosk_enabled |-> usent[u].kiosk_enabled]
    /\ udata' = [udata EXCEPT ![u] = usent[u]]
    /\ upc' = [upc EXCEPT ![u] = "replied"]
    /\ UNCHANGED <<nullifiers, nextId, pc, params, data, proof, res, store, uarg, usent>>

\* onSuccess of the mutation: the returned action replaces the one in the store
onSuccess(u) ==
    /\ upc[u] = "replied"
    /\ store' = udata[u]
    /\ upc' = [upc EXCEPT ![u] = "done"]
    /\ UNCHANGED <<action, nullifiers, nextId, lowered, pc, params, data, proof, res,
                   details, uarg, usent, udata>>

NextDashboard ==
    \/ \E u \in Upds : updateName(u)
    \/ \E u \in Upds : updateDescription(u)
    \/ \E u \in Upds : updateMaxVerificationsCall(u)
    \/ \E u \in Upds : toggleKiosk(u)
    \/ \E u \in Upds : UpdateActionMutation(u)
    \/ \E u \in Upds : onSuccess(u)

SpecDashboard == InitDashboard /\ [][NextDashboard]_vars

\* ---- vocabulary of the properties ----
Answered(r, code) == pc[r] = "done" /\ res[r].code = code
Succeeded(r) == Answered(r, "success")
HashOf(r) == params[r].nullifier_hash
Successes(hash) == {r \in Reqs : Succeeded(r) /\ HashOf(r) = hash}
Found(r) == data[r].nullifier.found
\* r answers with this code in the step
Answers(r, code) == pc[r] # "done" /\ pc'[r] = "done" /\ res'[r].code = code
\* r performs its conditional update in the step
Updates(r) == pc[r] = "write" /\ Found(r) /\ pc'[r] = "done"
\* r performs its insert in the step
Inserts(r) == pc[r] = "write" /\ ~Found(r) /\ pc'[r] = "done"
\* the stored row of hash has this uses value
Stored(rows, hash, uses) == \E n \in RowsOf(rows, hash) : n.uses = uses

\* C1: with max_verifications constant, the requests of one nullifier_hash
\* that answer 200 success number at most max_verifications, under every
\* interleaving of fetch, check, verifyProof and insert / conditional update.
C1_SuccessesWithinLimit ==
    \A hash \in Hashes : Cardinality(Successes(hash)) <= action.max_verifications

\* C1 witness: the limit is used up and a concurrent request that had read a
\* free slot was turned away at its write.
C1_Witness ==
    \E hash \in Hashes :
        /\ Cardinality(Successes(hash)) = action.max_verifications
        /\ \E r \in Reqs : /\ HashOf(r) = hash
                            /\ Answered(r, "already_verified")
                            /\ proof[r] = "success"
                            /\ Found(r)

\* C2: as long as max_verifications has not been lowered, every nullifier row
\* has uses at most the max_verifications of the action.
C2_UsesWithinLimit ==
    ~lowered => \A n \in nullifiers : n.uses <= action.max_verifications

\* C2 witness: a row at the limit, reached by an increment, while another
\* request that read the same row is still about to write; the limit is above 1.
C2_Witness ==
    /\ ~lowered
    /\ action.max_verifications > 1
    /\ \E n \in nullifiers, r \in Reqs :
          /\ n.uses = action.max_verifications
          /\ pc[r] = "write" /\ Found(r) /\ HashOf(r) = n.nullifier_hash
          /\ data[r].nullifier.uses < n.uses

\* C3: the increment is a conditional update: when the stored uses equals the
\* uses the request read, the row gains exactly 1 and the request answers
\* success; otherwise no row changes and the request answers already_verified.
C3_ConditionalUpdate ==
    [][\A r \in Reqs : Updates(r) =>
          LET hash == HashOf(r)
              read == data[r].nullifier.uses
          IN IF Stored(nullifiers, hash, read)
             THEN /\ Stored(nullifiers', hash, read + 1)
                  /\ ~Stored(nullifiers', hash, read)
                  /\ Cardinality(nullifiers') = Cardinality(nullifiers)
                  /\ \A n \in nullifiers : n.nullifier_hash # hash => n \in nullifiers'
                  /\ res'[r].code = "success"
             ELSE /\ nullifiers' = nullifiers
                  /\ res'[r].code = "already_verified"]_vars

\* C3 witness: a request whose read value is stale (another request has
\* incremented the row since) was answered already_verified by its update.
C3_Witness ==
    \E r \in Reqs :
        /\ Found(r) /\ proof[r] = "success" /\ Answered(r, "already_verified")
        /\ \E q \in Reqs : /\ q # r /\ HashOf(q) = HashOf(r) /\ Found(q)
                            /\ Succeeded(q)
                            /\ res[q].uses = data[r].nullifier.uses + 1

\* C4: a nullifier write, and a success answer, happen only in a step of a
\* request whose verifyProof returned success without error; a request whose
\* proof was rejected writes nothing and answers its error.
C4_WriteOnlyAfterProof ==
    [][\A r \in Reqs : pc'[r] # pc[r] =>
          /\ (nullifiers' # nullifiers \/ res'[r].code = "success") => proof[r] = "success"
          /\ proof'[r] = "failed" => (nullifiers' = nullifiers /\ Answers(r, "proof_error"))]_vars

\* C4 witness: one request was rejected at verifyProof while another request
\* for the same nullifier_hash passed it and wrote the row.
C4_Witness ==
    \E r, q \in Reqs :
        /\ HashOf(r) = HashOf(q)
        /\ proof[r] = "failed" /\ Answered(r, "proof_error")
        /\ proof[q] = "success" /\ Succeeded(q)
        /\ RowsOf(nullifiers, HashOf(q)) # {}

\* C5 (as claimed): whenever a request answers already_verified, the stored
\* uses of its nullifier is at least the max_verifications of the action.
C5_RejectedOnlyAtLimit ==
    [][\A r \in Reqs : Answers(r, "already_verified") =>
          \E n \in RowsOf(nullifiers', HashOf(r)) :
              n.uses >= action'.max_verifications]_vars

\* C6: of the requests that found no row for a nullifier_hash, at most one
\* insert succeeds; every other one whose insert reaches the table answers
\* already_verified; and exactly one row of that nullifier_hash exists then.
C6_OneInsertPerHash ==
    \A hash \in Hashes :
        LET inserters == {r \in Reqs : /\ pc[r] = "done" /\ ~Found(r)
                                       /\ proof[r] = "success" /\ HashOf(r) = hash
                                       /\ res[r].code # "thrown"}
        IN /\ Cardinality(RowsOf(nullifiers, hash)) <= 1
           /\ Cardinality({r \in inserters : res[r].code = "success"}) <= 1
           /\ \A r \in inserters : res[r].code \in {"success", "already_verified"}
           /\ inserters # {} =>
                /\ Cardinality(RowsOf(nullifiers, hash)) = 1
                /\ \E r \in Reqs : Succeeded(r) /\ ~Found(r) /\ HashOf(r) = hash

\* C6 witness: two requests found no row, one inserted, the other ran into the
\* constraint and answered already_verified.
C6_Witness ==
    \E r, q \in Reqs :
        /\ r # q /\ HashOf(r) = HashOf(q)
        /\ ~Found(r) /\ ~Found(q)
        /\ Succeeded(r)
        /\ proof[q] = "success" /\ Answered(q, "already_verified")

\* C7: the uses of a success answer is the stored uses right after the
\* request's own write (1 after an insert, read uses + 1 after an increment),
\* lies between 1 and the reported max_uses, and differs from the uses of
\* every other success answer for the same nullifier_hash.
C7_ReportedUses ==
    [][\A r \in Reqs : Answers(r, "success") =>
          /\ Stored(nullifiers', HashOf(r), res'[r].uses)
          /\ res'[r].uses = (IF Found(r) THEN data[r].nullifier.uses + 1 ELSE 1)
          /\ res'[r].uses \in 1..res'[r].max_uses
          /\ \A q \in Successes(HashOf(r)) : res[q].uses # res'[r].uses]_vars

\* C7 witness: two success answers for one nullifier_hash, one from the
\* insert and one from an increment.
C7_Witness ==
    \E r, q \in Reqs :
        /\ HashOf(r) = HashOf(q)
        /\ Succeeded(r) /\ ~Found(r) /\ res[r].uses = 1
        /\ Succeeded(q) /\ Found(q) /\ res[q].uses = 2

\* C8: in every step of a request the nullifier table changes if and only if
\* the request answers 200 success in that step; an error answer leaves the
\* table as it was.
C8_WriteIffSuccess ==
    [][\A r \in Reqs : pc'[r] # pc[r] =>
          (nullifiers' # nullifiers <=> Answers(r, "success"))]_vars

\* C8 witness: answers already_verified (after a passed proof), proof error
\* and success have all been given and the table holds a row.
C8_Witness ==
    /\ nullifiers # {}
    /\ \E r \in Reqs : Succeeded(r)
    /\ \E r \in Reqs : Answered(r, "proof_error")
    /\ \E r \in Reqs : Answered(r, "already_verified") /\ proof[r] = "success"

\* C9: the first failing check decides the answer, in the order method,
\* schema, app_id, fetch error, inactive action, use limit, external
\* nullifier, proof; and verifyProof is not called for an inactive action or
\* a nullifier at its limit.
AtLimit(d) == d.nullifier.found /\ d.nullifier.uses >= d.max_verifications
C9_CheckOrder ==
    \A r \in Reqs : pc[r] = "done" =>
        LET p == params[r]
            d == data[r]
        IN /\ IF p.method # "POST" THEN res[r].code = "method_not_allowed"
              ELSE IF ~p.isValid THEN res[r].code = "validation_error"
              ELSE IF ~p.app_id THEN res[r].code = "required"
              ELSE IF d.error THEN res[r].code = "fetch_error"
              ELSE IF d.status = "inactive" THEN res[r].code = "action_inactive"
              ELSE IF AtLimit(d) THEN res[r].code = "already_verified"
              ELSE IF ~d.external_nullifier THEN res[r].code = "verification_error"
              ELSE IF proof[r] = "failed" THEN res[r].code = "proof_error"
              ELSE res[r].code \in {"success", "already_verified", "thrown"}
           /\ (d.status = "inactive" \/ AtLimit(d)) => proof[r] = "none"

\* C9 witness: a fetched request met an inactive action whose nullifier was
\* at the limit and which had no external nullifier, and was answered.
C9_Witness ==
    \E r \in Reqs :
        /\ pc[r] = "done" /\ HashOf(r) # NoHash /\ ~data[r].error
        /\ data[r].status = "inactive" /\ AtLimit(data[r])
        /\ ~data[r].external_nullifier

\* C10: a request that found a row answers success only if the uses it read
\* was below the max_verifications it read in the same fetch, and the row it
\* leaves is within that limit, whatever the limit is at the time of the write.
C10_BoundedByFetchedLimit ==
    [][\A r \in Reqs : (Answers(r, "success") /\ Found(r)) =>
          /\ data[r].nullifier.uses < data[r].max_verifications
          /\ \A n \in RowsOf(nullifiers', HashOf(r)) :
                n.uses <= data[r].max_verifications]_vars

\* C10 witness: the limit was lowered after the fetch and the request still
\* succeeded: its row now exceeds the current limit.
C10_Witness ==
    \E r \in Reqs :
        /\ Succeeded(r) /\ Found(r) /\ lowered
        /\ data[r].max_verifications > action.max_verifications
        /\ res[r].uses > action.max_verifications
        /\ Stored(nullifiers, HashOf(r), res[r].uses)

\* the fields an update's argument leaves out
Fields == {"name", "description", "max_verifications", "kiosk_enabled"}
NotSupplied(u) == Fields \ DOMAIN uarg[u]
\* at least two updates are issued and none has completed
Overlapping ==
    /\ \A v \in Upds : upc[v] # "done"
    /\ Cardinality({v \in Upds : upc[v] \in {"sent", "replied"}}) >= 2

\* C11 (as claimed): when the server applies an update that supplies one
\* field, the action's other three fields keep their server values, also
\* when two updates were issued before either completed.
C11_OtherFieldsKept ==
    [][\A u \in Upds :
          (upc[u] = "sent" /\ upc'[u] = "replied" /\ Overlapping) =>
              \A field \in NotSupplied(u) : ServerAction'[field] = ServerAction[field]]_vars
====
